---- MODULE Spec2Model ----
(***************************************************************************)
(* The data-access layer of lib/db: the Mongoose collections declared in   *)
(* mongoose-schema.ts (with their required paths and unique indexes) and   *)
(* the query functions of queries.ts that work on them.                    *)
(*                                                                         *)
(* Strings are modelled as pairs <<kind, n>>: caller-supplied ids          *)
(* (<<"chat", n>>, <<"msg", n>>, ...), generated UUIDs (<<"uuid", n>>),    *)
(* e-mail addresses (<<"mail", n>>, <<"guest", t>>) and the strings that   *)
(* Mongoose produces when it casts a non-string to a String path           *)
(* (<<"hex", n>> for an ObjectId, <<"doc", n>> for a whole document).      *)
(* ObjectIds are <<"oid", n>>.  Dates are milliseconds since the epoch.    *)
(*                                                                         *)
(* Every query function is one action; ret holds the last call (its name,  *)
(* arguments, the kind of the ChatSDKError it threw, or "none", and the    *)
(* value it returned) and pre the store as that call found it.  The        *)
(* collections are independent but for the cascading deletes, so each      *)
(* group of functions has its own specification; the collections a         *)
(* specification does not write stay empty in it.                          *)
(***************************************************************************)
EXTENDS Integers, Sequences, FiniteSets

VARIABLES users, chats, messages, votes, documents, suggestions, streams,
          now, ret, pre, calls

vars == <<users, chats, messages, votes, documents, suggestions, streams,
          now, ret, pre, calls>>

(* ------------------------------ bounds -------------------------------- *)

MaxClock == 1
MaxLimit == 1
MaxHours == 1
MaxProcs == 2

HourMs == 60 * 60 * 1000

\* The inputs the operations are called with.
Times == {t * HourMs : t \in 0..MaxClock}
UserIds == {<<"user", 1>>, <<"user", 2>>}
ChatIds == {<<"chat", 1>>, <<"chat", 2>>, <<"chat", 3>>}
CascadeChatIds == {<<"chat", 1>>, <<"chat", 2>>}
MessageIds == {<<"msg", 1>>, <<"msg", 2>>}
DocumentIds == {<<"document", 1>>, <<"document", 2>>}
SuggestionIds == {<<"suggestion", 1>>, <<"suggestion", 2>>}
StreamIds == {<<"stream", 1>>}
Emails == {<<"mail", 1>>, <<"mail", 2>>} \cup {<<"guest", t>> : t \in Times}
Passwords == {<<"password", 1>>, <<"password", 2>>}
Roles == {"user", "assistant"}
VoteTypes == {"up", "down"}
Procs == 1..MaxProcs

(* ---------------------------- the driver ------------------------------ *)

None == {}
Some(x) == {x}

NoError == "none"
BadRequest == "bad_request:database"
NotFound == "not_found:database"

DB == [users |-> users, chats |-> chats, messages |-> messages,
       votes |-> votes, documents |-> documents,
       suggestions |-> suggestions, streams |-> streams, now |-> now]

\* The document as stored: Mongoose adds _id, an ObjectId no other stored
\* document carries.  The code only compares ObjectIds and casts them to
\* strings, so the model derives the ObjectId from the document's unique key.
Stored(doc, key) ==
  [f \in DOMAIN doc \cup {"_id"} |-> IF f = "_id" THEN <<"oid", key>> ELSE doc[f]]

\* generateUUID(): a string no stored user has as its id.
generateUUID == <<"uuid", CHOOSE n \in 1..(Cardinality(users) + 1) :
                            \A u \in users : "id" \in DOMAIN u => u.id # <<"uuid", n>>>>

\* String(value) as Mongoose's String cast applies it to an ObjectId.
ObjectIdToString(oid) == <<"hex", oid[2]>>

\* String(value) as Mongoose's String cast applies it to a document.
DocumentToString(d) == <<"doc", d._id[2]>>

Required(doc, paths) == \A p \in paths : p \in DOMAIN doc

(* ------------------------------- User --------------------------------- *)

UserCreateNoEmailIndex(us, doc) ==
  IF /\ Required(doc, {"id", "email"})
     /\ \A u \in us : u.id # doc.id
  THEN [ok |-> TRUE, docs |-> us \cup {Stored(doc, doc.id)}]
  ELSE [ok |-> FALSE, docs |-> us]

\* User.create under userSchema: id and email are required and unique.
UserCreate(us, doc) ==
  IF /\ Required(doc, {"id", "email"})
     /\ \A u \in us : u.id # doc.id
     /\ \A u \in us : u.email # doc.email
  THEN [ok |-> TRUE, docs |-> us \cup {Stored(doc, doc.id)}]
  ELSE [ok |-> FALSE, docs |-> us]

generateHashedPassword(password) == <<"hash", password[2]>>

Call(op, args, error, value) ==
  /\ ret' = [op |-> op, args |-> args, error |-> error, value |-> value]
  /\ pre' = DB

getUser(email) ==
  /\ Call("getUser", [email |-> email], NoError, {u \in users : u.email = email})
  /\ UNCHANGED <<users, chats, messages, votes, documents, suggestions, streams, now, calls>>

createUser(email, password) ==
  LET hashedPassword == generateHashedPassword(password)
      r == UserCreate(users, [email |-> email,
                              password |-> hashedPassword])
  IN /\ users' = r.docs
     /\ Call("createUser", [email |-> email, password |-> password],
             IF r.ok THEN NoError ELSE BadRequest, None)
     /\ UNCHANGED <<chats, messages, votes, documents, suggestions, streams, now, calls>>

createGuestUser ==
  LET id == generateUUID
      email == <<"guest", now>>
      password == generateHashedPassword(generateUUID)
      r == UserCreate(users, [id |-> id, email |-> email,
                              password |-> password])
  IN /\ users' = r.docs
     /\ Call("createGuestUser", <<>>,
             IF r.ok THEN NoError ELSE BadRequest,
             IF r.ok THEN Some([id |-> id, email |-> email]) ELSE None)
     /\ UNCHANGED <<chats, messages, votes, documents, suggestions, streams, now, calls>>

\* Date.now() moves on.
Tick ==
  /\ now + HourMs \in Times
  /\ now' = now + HourMs
  /\ UNCHANGED <<users, chats, messages, votes, documents, suggestions, streams,
                 ret, pre, calls>>

Idle == [pc |-> "idle"]

Init ==
  /\ users = {}
  /\ chats = {}
  /\ messages = {}
  /\ votes = {}
  /\ documents = {}
  /\ suggestions = {}
  /\ streams = {}
  /\ now = 0
  /\ ret = [op |-> "none", args |-> <<>>, error |-> NoError, value |-> None]
  /\ pre = DB
  /\ calls = [p \in Procs |-> Idle]

NextUser ==
  \/ Tick
  \/ \E e \in Emails : getUser(e)
  \/ \E e \in Emails, p \in Passwords : createUser(e, p)
  \/ createGuestUser

SpecUser == Init /\ [][NextUser]_vars

(* ----------------------- Document and Suggestion ---------------------- *)

\* Model.insertMany(docs), ordered: the documents are inserted one by one and
\* the first that collides on the unique path id ends the call with an error;
\* those inserted before it stay.
RECURSIVE InsertMany(_, _)
InsertMany(stored, docs) ==
  IF docs = <<>> THEN [ok |-> TRUE, docs |-> stored]
  ELSE IF \E d \in stored : d.id = Head(docs).id
       THEN [ok |-> FALSE, docs |-> stored]
       ELSE InsertMany(stored \cup {Stored(Head(docs), Head(docs).id)}, Tail(docs))

\* Document.create under documentSchema: the path id is declared unique, and
\* the compound index on (id, createdAt) is unique as well.
DocumentCreate(ds, doc) ==
  IF /\ Required(doc, {"id", "createdAt", "userId"})
     /\ \A d \in ds : d.id # doc.id
     /\ \A d \in ds : ~(d.id = doc.id /\ d.createdAt = doc.createdAt)
  THEN [ok |-> TRUE, docs |-> ds \cup {Stored(doc, <<doc.id, doc.createdAt>>)}]
  ELSE [ok |-> FALSE, docs |-> ds]

\* The results of find(...).sort({ createdAt: dir }) over the documents S:
\* every arrangement of S in that order; the store may return documents of
\* equal createdAt either way round.
SortByCreatedAt(S, dir) ==
  {q \in [1..Cardinality(S) -> S] :
     /\ \A i, j \in 1..Cardinality(S) : i # j => q[i] # q[j]
     /\ \A i, j \in 1..Cardinality(S) :
          i < j => dir * q[i].createdAt <= dir * q[j].createdAt}

saveDocument(id, userId) ==
  LET doc == [id |-> id, userId |-> userId, createdAt |-> now]
      r == DocumentCreate(documents, doc)
  IN /\ documents' = r.docs
     /\ Call("saveDocument", [id |-> id, userId |-> userId],
             IF r.ok THEN NoError ELSE BadRequest,
             IF r.ok THEN r.docs \ documents ELSE None)
     /\ UNCHANGED <<users, chats, messages, votes, suggestions, streams, now, calls>>

getDocumentsById(id) ==
  /\ \E found \in SortByCreatedAt({d \in documents : d.id = id}, 1) :
       Call("getDocumentsById", [id |-> id], NoError, found)
  /\ UNCHANGED <<users, chats, messages, votes, documents, suggestions, streams, now, calls>>

getDocumentById(id) ==
  /\ \E found \in SortByCreatedAt({d \in documents : d.id = id}, -1) :
       Call("getDocumentById", [id |-> id], NoError,
            IF found = <<>> THEN None ELSE Some(found[1]))
  /\ UNCHANGED <<users, chats, messages, votes, documents, suggestions, streams, now, calls>>

saveSuggestions(batch) ==
  LET r == InsertMany(suggestions, batch)
  IN /\ suggestions' = r.docs
     /\ Call("saveSuggestions", [suggestions |-> batch],
             IF r.ok THEN NoError ELSE BadRequest, None)
     /\ UNCHANGED <<users, chats, messages, votes, documents, streams, now, calls>>

deleteDocumentsByIdAfterTimestampKeepSuggestions(id, timestamp) ==
  LET gone == {d \in documents : d.id = id /\ d.createdAt > timestamp}
  IN /\ suggestions' = suggestions
     /\ documents' = documents \ gone
     /\ Call("deleteDocumentsByIdAfterTimestamp", [id |-> id, timestamp |-> timestamp],
             NoError, IF gone # {} THEN Some([id |-> id]) ELSE None)
     /\ UNCHANGED <<users, chats, messages, votes, streams, now, calls>>

deleteDocumentsByIdAfterTimestamp(id, timestamp) ==
  LET gone == {d \in documents : d.id = id /\ d.createdAt > timestamp}
  IN /\ suggestions' = {s \in suggestions :
                          ~(s.documentId = id /\ s.documentCreatedAt > timestamp)}
     /\ documents' = documents \ gone
     /\ Call("deleteDocumentsByIdAfterTimestamp", [id |-> id, timestamp |-> timestamp],
             NoError, IF gone # {} THEN Some([id |-> id]) ELSE None)
     /\ UNCHANGED <<users, chats, messages, votes, streams, now, calls>>

\* The suggestion a caller builds for the version of a document created at t.
NewSuggestion(id, documentId, t) ==
  [id |-> id, documentId |-> documentId, documentCreatedAt |-> t, createdAt |-> now]

NextDocument ==
  \/ Tick
  \/ \E id \in DocumentIds : saveDocument(id, <<"user", 1>>)
  \/ \E id \in DocumentIds : getDocumentsById(id)
  \/ \E id \in DocumentIds : getDocumentById(id)
  \/ \E id \in SuggestionIds, d \in DocumentIds, t \in Times :
       saveSuggestions(<<NewSuggestion(id, d, t)>>)
  \/ \E id \in DocumentIds, t \in Times : deleteDocumentsByIdAfterTimestamp(id, t)

SpecDocument == Init /\ [][NextDocument]_vars

(* ------------------- Chat, Message, Vote and Stream ------------------- *)

\* Chat.create under chatSchema: id is unique.
ChatCreate(cs, doc) ==
  IF /\ Required(doc, {"id", "createdAt", "userId"})
     /\ \A c \in cs : c.id # doc.id
  THEN [ok |-> TRUE, docs |-> cs \cup {Stored(doc, doc.id)}]
  ELSE [ok |-> FALSE, docs |-> cs]

\* Stream.create under streamSchema: id is unique.
StreamCreate(ss, doc) ==
  IF /\ Required(doc, {"id", "chatId", "createdAt"})
     /\ \A x \in ss : x.id # doc.id
  THEN [ok |-> TRUE, docs |-> ss \cup {Stored(doc, doc.id)}]
  ELSE [ok |-> FALSE, docs |-> ss]

VoteCreateNoIndex(vs, doc) ==
  IF Required(doc, {"chatId", "messageId", "isUpvoted"})
  THEN [ok |-> TRUE, docs |-> vs \cup {Stored(doc, <<doc.chatId, doc.messageId>>)}]
  ELSE [ok |-> FALSE, docs |-> vs]

\* Vote.create under voteSchema: the pair (chatId, messageId) is unique.
VoteCreate(vs, doc) ==
  IF /\ Required(doc, {"chatId", "messageId", "isUpvoted"})
     /\ \A v \in vs : ~(v.chatId = doc.chatId /\ v.messageId = doc.messageId)
  THEN [ok |-> TRUE, docs |-> vs \cup {Stored(doc, <<doc.chatId, doc.messageId>>)}]
  ELSE [ok |-> FALSE, docs |-> vs]

\* Vote.findOne({ messageId }): some vote on that message, of whatever chat.
VoteFindOne(vs, messageId) ==
  LET found == {v \in vs : v.messageId = messageId}
  IN IF found = {} THEN None ELSE Some(CHOOSE v \in found : TRUE)

\* Vote.updateOne({ messageId, chatId }, { isUpvoted })
VoteUpdateOne(vs, chatId, messageId, isUpvoted) ==
  LET found == {v \in vs : v.messageId = messageId /\ v.chatId = chatId}
  IN IF found = {} THEN vs
     ELSE LET v == CHOOSE x \in found : TRUE
          IN (vs \ {v}) \cup {[v EXCEPT !.isUpvoted = isUpvoted]}

\* The catch clause of a query function: whatever was thrown in the try
\* block, the caller gets the function's own 'bad_request:database' error.
Catch(thrown) == IF thrown = NoError THEN NoError ELSE BadRequest

saveChat(id, userId) ==
  LET r == ChatCreate(chats, [id |-> id, createdAt |-> now, userId |-> userId])
  IN /\ chats' = r.docs
     /\ Call("saveChat", [id |-> id, userId |-> userId],
             IF r.ok THEN NoError ELSE BadRequest, r.docs \ chats)
     /\ UNCHANGED <<users, messages, votes, documents, suggestions, streams, now, calls>>

deleteChatByIdKeepStreams(id) ==
  /\ votes' = {v \in votes : v.chatId # id}
  /\ messages' = {m \in messages : m.chatId # id}
  /\ streams' = streams
  /\ chats' = {c \in chats : c.id # id}
  /\ Call("deleteChatById", [id |-> id], NoError,
          IF \E c \in chats : c.id = id THEN Some([id |-> id]) ELSE None)
  /\ UNCHANGED <<users, documents, suggestions, now, calls>>

deleteChatById(id) ==
  /\ votes' = {v \in votes : v.chatId # id}
  /\ messages' = {m \in messages : m.chatId # id}
  /\ streams' = {x \in streams : x.chatId # id}
  /\ chats' = {c \in chats : c.id # id}
  /\ Call("deleteChatById", [id |-> id], NoError,
          IF Cardinality({c \in chats : c.id = id}) > 0 THEN Some([id |-> id]) ELSE None)
  /\ UNCHANGED <<users, documents, suggestions, now, calls>>

saveMessages(batch) ==
  LET r == InsertMany(messages, batch)
  IN /\ messages' = r.docs
     /\ Call("saveMessages", [messages |-> batch],
             IF r.ok THEN NoError ELSE BadRequest, r.docs \ messages)
     /\ UNCHANGED <<users, chats, votes, documents, suggestions, streams, now, calls>>

voteMessage(chatId, messageId, type) ==
  LET existingVote == VoteFindOne(votes, messageId)
      r == VoteCreate(votes, [chatId |-> chatId, messageId |-> messageId,
                              isUpvoted |-> (type = "up")])
  IN /\ votes' = IF existingVote # None
                 THEN VoteUpdateOne(votes, chatId, messageId, type = "up")
                 ELSE r.docs
     /\ Call("voteMessage", [chatId |-> chatId, messageId |-> messageId, type |-> type],
             IF existingVote # None \/ r.ok THEN NoError ELSE BadRequest, None)
     /\ UNCHANGED <<users, chats, messages, documents, suggestions, streams, now, calls>>

createStreamId(streamId, chatId) ==
  LET r == StreamCreate(streams, [id |-> streamId, chatId |-> chatId, createdAt |-> now])
  IN /\ streams' = r.docs
     /\ Call("createStreamId", [streamId |-> streamId, chatId |-> chatId],
             IF r.ok THEN NoError ELSE BadRequest, None)
     /\ UNCHANGED <<users, chats, messages, votes, documents, suggestions, now, calls>>

\* The message a caller builds.
NewMessage(id, chatId, role) ==
  [id |-> id, chatId |-> chatId, role |-> role, createdAt |-> now]

Next ==
  \/ \E id \in CascadeChatIds : saveChat(id, <<"user", 1>>)
  \/ \E id \in MessageIds, c \in CascadeChatIds : saveMessages(<<NewMessage(id, c, "user")>>)
  \/ \E c \in CascadeChatIds, m \in MessageIds, t \in VoteTypes : voteMessage(c, m, t)
  \/ \E id \in StreamIds, c \in CascadeChatIds : createStreamId(id, c)
  \/ \E id \in CascadeChatIds : deleteChatById(id)

Spec == Init /\ [][Next]_vars

ExtendedLimitNoLookahead(limit) == limit

\* const extendedLimit = limit + 1
ExtendedLimit(limit) == limit + 1

\* The first n elements of a sequence: query.limit(n).
Limit(q, n) == SubSeq(q, 1, IF Len(q) < n THEN Len(q) ELSE n)

getChatsByUserId(id, limit, startingAfter, endingBefore) ==
  LET args == [id |-> id, limit |-> limit, startingAfter |-> startingAfter,
               endingBefore |-> endingBefore]
      extendedLimit == ExtendedLimit(limit)
      cursor == IF startingAfter # None THEN startingAfter ELSE endingBefore
      selectedChat == {c \in chats : Some(c.id) = cursor}
      thrown == IF cursor # None /\ selectedChat = {} THEN NotFound ELSE NoError
      query == {c \in chats :
                  /\ c.userId = id
                  /\ startingAfter # None =>
                       \A x \in selectedChat : c.createdAt > x.createdAt
                  /\ (startingAfter = None /\ endingBefore # None) =>
                       \A x \in selectedChat : c.createdAt < x.createdAt}
  IN /\ IF thrown # NoError
        THEN Call("getChatsByUserId", args, Catch(thrown), None)
        ELSE \E sorted \in SortByCreatedAt(query, -1) :
               LET filteredChats == Limit(sorted, extendedLimit)
                   hasMore == Len(filteredChats) > limit
               IN Call("getChatsByUserId", args, NoError,
                       [chats |-> IF hasMore THEN SubSeq(filteredChats, 1, limit)
                                  ELSE filteredChats,
                        hasMore |-> hasMore])
     /\ UNCHANGED <<users, chats, messages, votes, documents, suggestions, streams,
                    now, calls>>

deleteMessagesByChatIdAfterTimestamp(chatId, timestamp) ==
  LET messagesToDelete == {m \in messages : m.chatId = chatId /\ m.createdAt >= timestamp}
      messageIds == {m._id : m \in messagesToDelete}
      \* Vote.messageId is a String path: the ObjectIds of $in are cast to strings.
      castIds == {ObjectIdToString(oid) : oid \in messageIds}
      deleted == {m \in messages : m.chatId = chatId /\ m._id \in messageIds}
  IN /\ IF Cardinality(messageIds) > 0
        THEN /\ votes' = {v \in votes : ~(v.chatId = chatId /\ v.messageId \in castIds)}
             /\ messages' = messages \ deleted
             /\ Call("deleteMessagesByChatIdAfterTimestamp",
                     [chatId |-> chatId, timestamp |-> timestamp], NoError,
                     Some([deletedCount |-> Cardinality(deleted)]))
        ELSE /\ UNCHANGED <<votes, messages>>
             /\ Call("deleteMessagesByChatIdAfterTimestamp",
                     [chatId |-> chatId, timestamp |-> timestamp], NoError, None)
     /\ UNCHANGED <<users, chats, documents, suggestions, streams, now, calls>>

getMessageCountByUserId(id, differenceInHours) ==
  LET twentyFourHoursAgo == now - differenceInHours * 60 * 60 * 1000
      \* Message.chatId is a String path: the chat documents of $in, which
      \* carry _id alone, are cast to strings.
      chatIds == {DocumentToString(c) : c \in {x \in chats : x.userId = id}}
      count == Cardinality({m \in messages :
                              /\ m.role = "user"
                              /\ m.createdAt >= twentyFourHoursAgo
                              /\ m.chatId \in chatIds})
  IN /\ Call("getMessageCountByUserId",
             [id |-> id, differenceInHours |-> differenceInHours], NoError, count)
     /\ UNCHANGED <<users, chats, messages, votes, documents, suggestions, streams,
                    now, calls>>

\* voteMessage up to the answer of Vote.findOne: the call of process p is
\* suspended at its first await.
voteMessageFindOne(p, chatId, messageId, type) ==
  /\ calls[p].pc = "idle"
  /\ calls' = [calls EXCEPT ![p] =
                 [pc |-> "found", chatId |-> chatId, messageId |-> messageId,
                  type |-> type, existingVote |-> VoteFindOne(votes, messageId)]]
  /\ UNCHANGED <<users, chats, messages, votes, documents, suggestions, streams,
                 now, ret, pre>>

\* The rest of voteMessage: updateOne if a vote was found, create otherwise.
voteMessageWrite(p) ==
  /\ calls[p].pc = "found"
  /\ LET c == calls[p]
         r == VoteCreate(votes, [chatId |-> c.chatId, messageId |-> c.messageId,
                                 isUpvoted |-> (c.type = "up")])
     IN /\ votes' = IF c.existingVote # None
                    THEN VoteUpdateOne(votes, c.chatId, c.messageId, c.type = "up")
                    ELSE r.docs
        /\ Call("voteMessage",
                [chatId |-> c.chatId, messageId |-> c.messageId, type |-> c.type],
                IF c.existingVote # None \/ r.ok THEN NoError ELSE BadRequest, None)
  /\ calls' = [calls EXCEPT ![p] = Idle]
  /\ UNCHANGED <<users, chats, messages, documents, suggestions, streams, now>>

NextPaging ==
  \/ Tick
  \/ \E id \in ChatIds, u \in UserIds : saveChat(id, u)
  \/ \E u \in {<<"user", 1>>}, limit \in 0..MaxLimit,
        startingAfter \in {None} \cup {Some(c) : c \in ChatIds},
        endingBefore \in {None} \cup {Some(c) : c \in ChatIds} :
       getChatsByUserId(u, limit, startingAfter, endingBefore)

SpecPaging == Init /\ [][NextPaging]_vars

NextCount ==
  \/ Tick
  \/ \E id \in CascadeChatIds, u \in UserIds : saveChat(id, u)
  \/ \E id \in MessageIds, c \in CascadeChatIds, r \in Roles :
       saveMessages(<<NewMessage(id, c, r)>>)
  \/ \E u \in UserIds, h \in 0..MaxHours : getMessageCountByUserId(u, h)

SpecCount == Init /\ [][NextCount]_vars

NextMessages ==
  \/ Tick
  \/ \E id \in MessageIds, c \in CascadeChatIds : saveMessages(<<NewMessage(id, c, "user")>>)
  \/ \E c \in CascadeChatIds, m \in MessageIds, t \in VoteTypes : voteMessage(c, m, t)
  \/ \E c \in CascadeChatIds, t \in Times : deleteMessagesByChatIdAfterTimestamp(c, t)

SpecMessages == Init /\ [][NextMessages]_vars

NextVote ==
  \/ \E p \in Procs, c \in CascadeChatIds, t \in VoteTypes :
       voteMessageFindOne(p, c, <<"msg", 1>>, t)
  \/ \E p \in Procs : voteMessageWrite(p)

SpecVote == Init /\ [][NextVote]_vars


(* ------------------------------ claims -------------------------------- *)

\* C1: after deleteChatById({id}) has completed without error, the store holds
\* no vote, message or stream whose chatId is id and no chat whose id is id,
\* and the call has returned {id} if a chat with that id existed before it
\* and undefined otherwise.
C1_DeleteChatCascades ==
  (ret.op = "deleteChatById" /\ ret.error = NoError) =>
    LET id == ret.args.id
    IN /\ \A v \in votes : v.chatId # id
       /\ \A m \in messages : m.chatId # id
       /\ \A x \in streams : x.chatId # id
       /\ \A c \in chats : c.id # id
       /\ ret.value = IF \E c \in pre.chats : c.id = id THEN Some([id |-> id]) ELSE None

\* A chat that had a vote, a message and a stream was deleted, and the records
\* of another chat are still stored.
C1_Witness ==
  /\ ret.op = "deleteChatById"
  /\ ret.value = Some([id |-> ret.args.id])
  /\ \E v \in pre.votes : v.chatId = ret.args.id
  /\ \E m \in pre.messages : m.chatId = ret.args.id
  /\ \E x \in pre.streams : x.chatId = ret.args.id
  /\ votes # {} /\ messages # {}

\* C3: when voteMessage is called twice in sequence with the same chatId and
\* messageId, exactly one vote exists for that pair afterwards and its
\* isUpvoted is (type = 'up') of the second call.
C3_SecondVoteUpdates ==
  [][\A c \in CascadeChatIds, m \in MessageIds, t \in VoteTypes :
       (/\ ret.op = "voteMessage"
        /\ ret.args.chatId = c
        /\ ret.args.messageId = m
        /\ voteMessage(c, m, t))
       => LET mine == {v \in votes' : v.chatId = c /\ v.messageId = m}
          IN /\ Cardinality(mine) = 1
             /\ \A v \in mine : v.isUpvoted = (t = "up")]_vars

\* C4: after deleteDocumentsByIdAfterTimestamp({id, timestamp}) no document of
\* that id created after timestamp and no suggestion for such a version is
\* left, and every other document and suggestion is stored as before.
C4_DeleteDocumentsCascades ==
  (ret.op = "deleteDocumentsByIdAfterTimestamp" /\ ret.error = NoError) =>
    LET id == ret.args.id
        timestamp == ret.args.timestamp
    IN /\ \A d \in documents : ~(d.id = id /\ d.createdAt > timestamp)
       /\ \A x \in suggestions : ~(x.documentId = id /\ x.documentCreatedAt > timestamp)
       /\ \A d \in pre.documents :
            (d.id # id \/ d.createdAt <= timestamp) => d \in documents
       /\ \A x \in pre.suggestions :
            (x.documentId # id \/ x.documentCreatedAt <= timestamp) => x \in suggestions
       /\ documents \subseteq pre.documents
       /\ suggestions \subseteq pre.suggestions

\* A version and a suggestion for it were deleted; an older suggestion of the
\* same document and a document of another id were kept.
C4_Witness ==
  /\ ret.op = "deleteDocumentsByIdAfterTimestamp"
  /\ ret.value = Some([id |-> ret.args.id])
  /\ \E x \in pre.suggestions \ suggestions : x.documentId = ret.args.id
  /\ \E x \in suggestions : x.documentId = ret.args.id
  /\ \E d \in documents : d.id # ret.args.id

\* C6: createUser with an e-mail address a stored user has fails with
\* 'bad_request:database' and leaves the users as they were; no two stored
\* users share an e-mail address.
C6_DuplicateEmailFails ==
  /\ (ret.op = "createUser" /\ \E u \in pre.users : u.email = ret.args.email)
       => (ret.error = BadRequest /\ users = pre.users)
  /\ \A u, v \in users : u.email = v.email => u = v

\* createUser was called with the e-mail address of a stored user.
C6_Witness ==
  /\ ret.op = "createUser"
  /\ \E u \in pre.users : u.email = ret.args.email
  /\ ret.error = BadRequest
  /\ users # {}

\* C8: saveDocument with an id that has a stored version, at a later
\* createdAt, succeeds and adds a version; getDocumentsById returns all
\* versions in ascending createdAt order and getDocumentById the latest.
C8_DocumentsAreVersioned ==
  /\ (/\ ret.op = "saveDocument"
      /\ \E d \in pre.documents : d.id = ret.args.id /\ d.createdAt < pre.now)
       => /\ ret.error = NoError
          /\ Cardinality({d \in documents : d.id = ret.args.id})
               = Cardinality({d \in pre.documents : d.id = ret.args.id}) + 1
  /\ ret.op = "getDocumentsById"
       => /\ {ret.value[i] : i \in 1..Len(ret.value)}
               = {d \in pre.documents : d.id = ret.args.id}
          /\ \A i, j \in 1..Len(ret.value) :
               i < j => ret.value[i].createdAt <= ret.value[j].createdAt
  /\ ret.op = "getDocumentById"
       => \A d \in pre.documents : d.id = ret.args.id =>
            \E latest \in ret.value : latest.id = d.id /\ latest.createdAt >= d.createdAt

\* The chats of user id that lie beyond the cursor of a getChatsByUserId call.
C2_Matching(db, a) ==
  {c \in db.chats :
     /\ c.userId = a.id
     /\ IF a.startingAfter # None
        THEN \E x \in db.chats : Some(x.id) = a.startingAfter /\ c.createdAt > x.createdAt
        ELSE a.endingBefore # None =>
               \E x \in db.chats : Some(x.id) = a.endingBefore /\ c.createdAt < x.createdAt}

\* C2: getChatsByUserId with limit N returns at most N chats, all of them chats
\* of the user beyond the cursor, and hasMore is true exactly when more than N
\* chats of the user lie beyond the cursor.
C2_Pagination ==
  (ret.op = "getChatsByUserId" /\ ret.error = NoError) =>
    LET matching == C2_Matching(pre, ret.args)
        page == ret.value.chats
    IN /\ Len(page) <= ret.args.limit
       /\ \A i \in 1..Len(page) : page[i] \in matching
       /\ ret.value.hasMore <=> Cardinality(matching) > ret.args.limit

\* A page of one chat was returned from beyond a cursor, with more to come.
C2_Witness ==
  /\ ret.op = "getChatsByUserId"
  /\ ret.error = NoError
  /\ ret.args.startingAfter # None \/ ret.args.endingBefore # None
  /\ Len(ret.value.chats) = 1
  /\ ret.value.hasMore

\* C5: getMessageCountByUserId returns the number of stored messages of role
\* 'user', created within the last differenceInHours hours, whose chatId is
\* the id of a chat of the user.
C5_CountsUserMessages ==
  ret.op = "getMessageCountByUserId" =>
    ret.value = Cardinality({m \in pre.messages :
                   /\ m.role = "user"
                   /\ m.createdAt >= pre.now - ret.args.differenceInHours * HourMs
                   /\ \E c \in pre.chats : c.userId = ret.args.id /\ c.id = m.chatId})

\* C7: getChatsByUserId called with a cursor id that matches no stored chat
\* fails with 'not_found:database'.
C7_CursorNotFound ==
  (/\ ret.op = "getChatsByUserId"
   /\ LET cursor == IF ret.args.startingAfter # None THEN ret.args.startingAfter
                    ELSE ret.args.endingBefore
      IN cursor # None /\ \A c \in pre.chats : Some(c.id) # cursor)
    => ret.error = NotFound

\* C9: under any interleaving of voteMessage calls at most one vote is stored
\* for a pair (chatId, messageId), and a call that found no vote and comes to
\* insert when the pair has one stores nothing and fails with
\* 'bad_request:database'.
C9_VotesStayUnique ==
  /\ [](\A v, w \in votes : (v.chatId = w.chatId /\ v.messageId = w.messageId) => v = w)
  /\ [][\A p \in Procs :
          (/\ calls[p].pc = "found"
           /\ calls'[p].pc = "idle"
           /\ calls[p].existingVote = None
           /\ \E v \in votes : v.chatId = calls[p].chatId /\ v.messageId = calls[p].messageId)
          => (votes' = votes /\ ret'.error = BadRequest)]_vars

\* A call lost the race: it failed, and the vote of the winner is stored.
C9_Witness ==
  /\ ret.op = "voteMessage"
  /\ ret.error = BadRequest
  /\ \E v \in votes : v.chatId = ret.args.chatId /\ v.messageId = ret.args.messageId
  /\ \E p \in Procs : calls[p].pc = "found"

\* C10: deleteMessagesByChatIdAfterTimestamp removes exactly the messages of
\* the chat created at or after timestamp, and no vote of the chat for a
\* removed message is left; the votes for the other messages stay.
C10_DeleteMessagesCascades ==
  (ret.op = "deleteMessagesByChatIdAfterTimestamp" /\ ret.error = NoError) =>
    LET removed == {m \in pre.messages :
                      m.chatId = ret.args.chatId /\ m.createdAt >= ret.args.timestamp}
    IN /\ messages = pre.messages \ removed
       /\ \A v \in votes :
            ~(v.chatId = ret.args.chatId /\ \E m \in removed : v.messageId = m.id)
       /\ \A v \in pre.votes :
            (\A m \in removed : v.messageId # m.id) => v \in votes

====
